---- MODULE Spec2Model ----
(***************************************************************************)
(* k8sforward: settings validation, kubeconfig context resolution, pod     *)
(* selection and the Init / CancelFn / ready-channel contract of           *)
(* src/k8forward.go and src/validate.go (validateLocalAddress is the copy  *)
(* kept in src/README.md).                                                 *)
(*                                                                         *)
(* Strings are sequences of one-character strings.  A multi-character      *)
(* element of a message is a literal chunk of the program text; it never   *)
(* contains '%' or ':'.                                                     *)
(***************************************************************************)
EXTENDS Integers, Sequences, FiniteSets, TLC

VARIABLES
    s,          \* the Settings value (k8forward.go:23-55)
    env,        \* HOME, the kubeconfig file and the client constructors' outcomes
    pc,         \* position of the Init call in progress: idle, listing, forwarding
    ctx,        \* the context handed to Init: "live" or "canceled"
    calls,      \* number of Init calls started on this Settings
    trace,      \* stages entered by the current Init call, in order
    pods,       \* the pod listing returned to the current Init call
    cancels,    \* CancelFn invocations made by the current Init call
    runErr,     \* what run returned to Init in the last finished call
    ret,        \* what Init returned in the last finished call
    vret,       \* what the last Validate call returned
    loads,      \* number of clientcmd.LoadFromFile calls so far
    op,         \* the operation the last step belonged to
    sig,        \* channel -> number of times it was signaled (closed)
    session,    \* what the forwarding collaborator was started with, and what it did
    out,        \* last status line written to s.Out
    portIn,     \* the port string handed to validateTCPPort
    portOut,    \* validateTCPPort's locals and result
    callerPc,   \* README caller: select, test, use, failed
    goPc,       \* README goroutine: start, running, stored
    pfErr,      \* README's shared pfErr variable
    seenErr     \* the value of pfErr the caller read in its test

vars == <<s, env, pc, ctx, calls, trace, pods, cancels, runErr, ret, vret, loads,
          op, sig, session, out, portIn, portOut, callerPc, goPc, pfErr, seenErr>>

settingsVars == <<s, env, pc, ctx, calls, trace, pods, cancels, runErr, ret, vret,
                  loads, op, sig, session, out>>
portVars == <<portIn, portOut>>
embedVars == <<callerPc, goPc, pfErr, seenErr>>

----------------------------------------------------------------------------
(* Bounds *)

MaxLen == 3         \* length of the free-form strings tried as ports
MaxDigits == 5      \* length of the all-digit strings tried as ports
MaxCalls == 2       \* Init calls made on one Settings value
MaxLoads == 2       \* Validate calls that reach clientcmd.LoadFromFile
MaxPods == 2        \* length of a pod listing
MaxAddrLen == 4     \* length of the free-form strings tried as LocalAddress
MaxRemoteLen == 1   \* length of the free-form strings tried as RemotePort

(* Program constants *)

MaxPort == 65535

----------------------------------------------------------------------------
(* Strings *)

Digit == {"0", "1", "2", "3", "4", "5", "6", "7", "8", "9"}

DigitVal(c) ==
    CASE c = "0" -> 0 [] c = "1" -> 1 [] c = "2" -> 2 [] c = "3" -> 3 [] c = "4" -> 4
      [] c = "5" -> 5 [] c = "6" -> 6 [] c = "7" -> 7 [] c = "8" -> 8 [] c = "9" -> 9

Strs(A, n) == UNION {[1..k -> A] : k \in 0..n}

Tail1(str) == SubSeq(str, 2, Len(str))

(* errors: kind names the fmt.Errorf site, canceled says whether errors.Is(err,
   context.Canceled) holds, msg is the text *)
Nil == [kind |-> "nil", canceled |-> FALSE, msg |-> <<>>]

Err(kind, msg) == [kind |-> kind, canceled |-> FALSE, msg |-> msg]

Wrap(kind, msg, inner) == [kind |-> kind, canceled |-> inner.canceled, msg |-> msg \o inner.msg]

(* strconv.Atoi as validateTCPPort uses it: an optional sign, then decimal digits *)
RECURSIVE AtoiDigits(_, _)
AtoiDigits(str, n) ==
    IF str = <<>> THEN [ok |-> TRUE, n |-> n]
    ELSE IF Head(str) \notin Digit THEN [ok |-> FALSE, n |-> 0]
    ELSE AtoiDigits(Tail1(str), n * 10 + DigitVal(Head(str)))

Atoi(str) ==
    IF str = <<>> THEN [ok |-> FALSE, n |-> 0]
    ELSE LET signed == Head(str) \in {"-", "+"}
             body == IF signed THEN Tail1(str) ELSE str
             r == AtoiDigits(body, 0)
         IN  IF body = <<>> \/ ~r.ok THEN [ok |-> FALSE, n |-> 0]
             ELSE [ok |-> TRUE, n |-> IF Head(str) = "-" THEN 0 - r.n ELSE r.n]

validateNonEmptyString(name, value) ==
    IF value = <<>> THEN Err("InvalidArgument", <<name, " must be specified">>) ELSE Nil

(* validateTCPPort with the `port <= 65535` test left out *)
validateTCPPort_lowOnly(name, portStr) ==
    IF validateNonEmptyString(name, portStr) # Nil
    THEN validateNonEmptyString(name, portStr)
    ELSE LET a == Atoi(portStr)
         IN  IF a.ok /\ a.n >= 0 THEN Nil
             ELSE Err("InvalidArgument",
                      <<name, " must be an integer from 0 to 65535 but was '">> \o portStr \o <<"'">>)

validateTCPPort(name, portStr) ==
    IF validateNonEmptyString(name, portStr) # Nil
    THEN validateNonEmptyString(name, portStr)
    ELSE LET a == Atoi(portStr)
         IN  IF a.ok /\ a.n >= 0 /\ a.n <= MaxPort THEN Nil
             ELSE Err("InvalidArgument",
                      <<name, " must be an integer from 0 to 65535 but was '">> \o portStr \o <<"'">>)


(* strings.Split(str, ":"): the segments between the separators, in order *)
RECURSIVE SplitFrom(_, _, _)
SplitFrom(str, sep, cur) ==
    IF str = <<>> THEN <<cur>>
    ELSE IF Head(str) = sep THEN <<cur>> \o SplitFrom(Tail1(str), sep, <<>>)
    ELSE SplitFrom(Tail1(str), sep, Append(cur, Head(str)))

Split(str, sep) == SplitFrom(str, sep, <<>>)

(* validateLocalAddress with the "local host" test left out *)
validateLocalAddress_noHostCheck(localAddress) ==
    LET addressParts == Split(localAddress, ":")
        bad(e) == [parts |-> <<>>, err |-> e]
    IN  IF validateNonEmptyString("local address", localAddress) # Nil
        THEN bad(validateNonEmptyString("local address", localAddress))
        ELSE IF Len(addressParts) # 2
        THEN bad(Err("InvalidArgument",
                     <<"local address must be in host:port format but was '">>
                         \o localAddress \o <<"'">>))
        ELSE IF validateTCPPort("local port", addressParts[2]) # Nil
        THEN bad(validateTCPPort("local port", addressParts[2]))
        ELSE [parts |-> addressParts, err |-> Nil]

(* validateLocalAddress returns (addressParts, err) *)
validateLocalAddress(localAddress) ==
    LET addressParts == Split(localAddress, ":")
        bad(e) == [parts |-> <<>>, err |-> e]
    IN  IF validateNonEmptyString("local address", localAddress) # Nil
        THEN bad(validateNonEmptyString("local address", localAddress))
        ELSE IF Len(addressParts) # 2
        THEN bad(Err("InvalidArgument",
                     <<"local address must be in host:port format but was '">>
                         \o localAddress \o <<"'">>))
        ELSE IF validateNonEmptyString("local host", addressParts[1]) # Nil
        THEN bad(validateNonEmptyString("local host", addressParts[1]))
        ELSE IF validateTCPPort("local port", addressParts[2]) # Nil
        THEN bad(validateTCPPort("local port", addressParts[2]))
        ELSE [parts |-> addressParts, err |-> Nil]

(* fmt.Sprintf(format) with no operands, as fmt.Errorf(missingErrMsg) calls it:
   text is copied up to a '%'; after it flags, width and precision are skipped
   and the verb is consumed; "%%" writes '%', any other verb has no operand and
   writes %!verb(MISSING), a '%' ending the format writes %!(NOVERB) *)
RECURSIVE SkipWhile(_, _)
SkipWhile(str, set) ==
    IF str # <<>> /\ Head(str) \in set THEN SkipWhile(Tail1(str), set) ELSE str

AfterPercent(str) ==
    LET f == SkipWhile(str, {"#", "0", "+", "-", " "})
        w == SkipWhile(f, Digit)
    IN  IF w # <<>> /\ Head(w) = "." THEN SkipWhile(Tail1(w), Digit) ELSE w

RECURSIVE Sprintf0(_)
Sprintf0(format) ==
    IF format = <<>> THEN <<>>
    ELSE IF Head(format) # "%" THEN <<Head(format)>> \o Sprintf0(Tail1(format))
    ELSE LET rest == AfterPercent(Tail1(format))
         IN  IF rest = <<>> THEN <<"%!(NOVERB)">>
             ELSE IF Head(rest) = "%" THEN <<"%">> \o Sprintf0(Tail1(rest))
             ELSE <<"%!", Head(rest), "(MISSING)">> \o Sprintf0(Tail1(rest))


----------------------------------------------------------------------------
(* Settings *)

NoChan == 0

NilOptions ==
    [made |-> FALSE, PodName |-> <<>>, Namespace |-> <<>>, Address |-> <<>>, Ports |-> <<>>,
     StopChannel |-> NoChan, ReadyChannel |-> NoChan, Out |-> "nil", ErrOut |-> "nil"]

(* portforward.NewDefaultPortForwardOptions(IOStreams{Out: s.Out, ErrOut: s.ErrOut}) *)
NewDefaultPortForwardOptions(o, e) == [NilOptions EXCEPT !.made = TRUE, !.Out = o, !.ErrOut = e]

DefaultKubeconfigPath(home) == <<home, "/.kube/config">>

(* prepare: returns the error, the Settings as prepare left it, and the number
   of channels it made; nch is the number of channels made so far *)
prepare(st, e, nch) ==
    IF ~e.kube.ok
    THEN [err |-> Wrap("ConfigLoadError",
                       <<"error loading the k8s config from ">> \o st.KubeconfigPath \o <<": ">>,
                       Err("load", <<"read error">>)),
          s |-> st, made |-> 0]
    ELSE IF st.ContextName \notin DOMAIN e.kube.contexts
    THEN [err |-> Err("UnknownContext", <<"unknown k8s context ", "'">> \o st.ContextName \o <<"'">>),
          s |-> st, made |-> 0]
    ELSE
    LET s1 == [st EXCEPT !.namespace = e.kube.contexts[st.ContextName]]
    IN  IF e.fail = "clientConfig"
        THEN [err |-> Wrap("ClientConfigError", <<"error creating the k8s client REST config: ">>,
                           Err("clientcmd", <<"invalid configuration">>)),
              s |-> [s1 EXCEPT !.restConfig = "nil"], made |-> 0]
        ELSE
    LET s2 == [s1 EXCEPT !.restConfig = "set"]
    IN  IF e.fail = "clientset"
        THEN [err |-> Wrap("ClientConfigError", <<"error creating k8s client set: ">>,
                           Err("kubernetes", <<"bad config">>)),
              s |-> s2, made |-> 0]
        ELSE
    LET s3 == [s2 EXCEPT !.podClient = "set",
                         !.portForwardOptions = NewDefaultPortForwardOptions(st.Out, st.ErrOut)]
    IN  IF e.fail = "restClient"
        THEN [err |-> Wrap("ClientConfigError", <<"error configuring REST client: ">>,
                           Err("rest", <<"bad config">>)),
              s |-> s3, made |-> 0]
        ELSE
    LET stop == nch + 1
        ready == IF st.ReadyChannel # NoChan THEN st.ReadyChannel ELSE nch + 2
        made == IF st.ReadyChannel # NoChan THEN 1 ELSE 2
        s4 == [s3 EXCEPT !.portForwardOptions =
                   [@ EXCEPT !.Namespace = s3.namespace,
                             !.PodName = <<"placeholder">>,
                             !.Address = <<s3.localHost>>,
                             !.Ports = <<s3.localPort \o <<":">> \o s3.RemotePort>>,
                             !.StopChannel = stop,
                             !.ReadyChannel = ready]]
    IN  IF e.fail = "optionsValidate"
        THEN [err |-> Wrap("ForwardOptionsError", <<"error validating the port-forwarding options: ">>,
                           Err("portforward", <<"invalid options">>)),
              s |-> s4, made |-> made]
        ELSE [err |-> Nil, s |-> [s4 EXCEPT !.validated = TRUE], made |-> made]

(* Validate past its `if s.validated` guard (k8forward.go:76-111): returns the
   error, the Settings as Validate left it, the number of channels made and
   whether clientcmd.LoadFromFile was called *)
validateFresh(st, e, nch) ==
    LET stop(err, s1) == [err |-> err, s |-> s1, made |-> 0, loaded |-> 0]
        a == validateLocalAddress(st.LocalAddress)
    IN  IF validateNonEmptyString("k8s context name", st.ContextName) # Nil
        THEN stop(validateNonEmptyString("k8s context name", st.ContextName), st)
        ELSE IF validateNonEmptyString("k8s app name", st.AppName) # Nil
        THEN stop(validateNonEmptyString("k8s app name", st.AppName), st)
        ELSE IF a.err # Nil THEN stop(a.err, st)
        ELSE
    LET s1 == [st EXCEPT !.localHost = a.parts[1], !.localPort = a.parts[2]]
    IN  IF validateTCPPort("remote TCP port", st.RemotePort) # Nil
        THEN stop(validateTCPPort("remote TCP port", st.RemotePort), s1)
        ELSE IF s1.KubeconfigPath = <<>> /\ ~e.home
        THEN stop(Err("ConfigLoadError", <<"cannot resolve home directory">>), s1)
        ELSE
    LET s2 == [s1 EXCEPT !.KubeconfigPath = IF @ = <<>> THEN DefaultKubeconfigPath("$HOME") ELSE @,
                         !.Out = IF @ = "nil" THEN "stdout" ELSE @,
                         !.ErrOut = IF @ = "nil" THEN "stderr" ELSE @]
        p == prepare(s2, e, nch)
    IN  [err |-> p.err, s |-> p.s, made |-> p.made, loaded |-> 1]

(* Validate with the `if s.validated` guard left out *)
Validate_noGuard(st, e, nch) == validateFresh(st, e, nch)

(* Validate (k8forward.go:71-112) *)
Validate(st, e, nch) ==
    IF st.validated
    THEN [err |-> Nil, s |-> st, made |-> 0, loaded |-> 0]
    ELSE validateFresh(st, e, nch)

(* Init with the errors.Is(err, context.Canceled) test placed after the CancelFn call *)
InitOutcome_alwaysCancel(err, cancelFn) ==
    IF err # Nil
    THEN [ret |-> IF err.canceled THEN Nil ELSE err, cancels |-> IF cancelFn # "nil" THEN 1 ELSE 0]
    ELSE [ret |-> Nil, cancels |-> 0]

(* Init with the CancelFn call left out *)
InitOutcome_neverCancel(err, cancelFn) ==
    IF err # Nil
    THEN [ret |-> IF err.canceled THEN Nil ELSE err, cancels |-> 0]
    ELSE [ret |-> Nil, cancels |-> 0]

(* Init's handling of what run returned (k8forward.go:59-68): the value Init
   returns and how many times it invokes CancelFn *)
InitOutcome(err, cancelFn) ==
    IF err # Nil
    THEN IF err.canceled THEN [ret |-> Nil, cancels |-> 0]
         ELSE [ret |-> err, cancels |-> IF cancelFn # "nil" THEN 1 ELSE 0]
    ELSE [ret |-> Nil, cancels |-> 0]


----------------------------------------------------------------------------
(* run, after Validate has succeeded (k8forward.go:185-215) *)

labelSelector(st) ==
    IF st.VersionName # <<>>
    THEN <<"app=">> \o st.AppName \o <<",version=">> \o st.VersionName
    ELSE <<"app=">> \o st.AppName

missingErrMsg(st) ==
    IF st.VersionName # <<>>
    THEN <<"no running pods found for app ", "'">> \o st.AppName \o <<"'", " version ", "'">>
             \o st.VersionName \o <<"'", " in ", "'">> \o st.ContextName \o <<"'", " context">>
    ELSE <<"no running pods found for app ", "'">> \o st.AppName
             \o <<"'", " in ", "'">> \o st.ContextName \o <<"'", " context">>

StatusLine(st) ==
    <<"Starting port-forward from ">> \o st.LocalAddress \o <<" to ">>
        \o st.portForwardOptions.PodName \o <<":">> \o st.RemotePort \o <<" on ">> \o st.ContextName

Canceled == [kind |-> "context", canceled |-> TRUE, msg |-> <<"context canceled">>]

(* selectPod with the `len(pods.Items) == 0` test left out *)
selectPod_keepOnEmpty(st, listErr, items) ==
    IF listErr # Nil
    THEN [err |-> Wrap("ListError", <<"error listing pods: ">>, listErr), s |-> st, out |-> <<>>]
    ELSE LET s1 == IF items = <<>> THEN st
                   ELSE [st EXCEPT !.portForwardOptions = [@ EXCEPT !.PodName = items[1]]]
         IN  IF s1.Out = "broken"
             THEN [err |-> Wrap("WriteError", <<"error writing to output stream: ">>,
                                Err("io", <<"write failed">>)),
                   s |-> s1, out |-> <<>>]
             ELSE [err |-> Nil, s |-> s1, out |-> StatusLine(s1)]

(* the listing's outcome decides how run goes on: the error it returns before
   forwarding (Nil when the collaborator is started), the Settings, and the
   status line written *)
selectPod(st, listErr, items) ==
    IF listErr # Nil
    THEN [err |-> Wrap("ListError", <<"error listing pods: ">>, listErr), s |-> st, out |-> <<>>]
    ELSE IF Len(items) = 0
    THEN [err |-> Err("NoMatchingPods", Sprintf0(missingErrMsg(st))), s |-> st, out |-> <<>>]
    ELSE LET s1 == [st EXCEPT !.portForwardOptions = [@ EXCEPT !.PodName = items[1]]]
         IN  IF s1.Out = "broken"
             THEN [err |-> Wrap("WriteError", <<"error writing to output stream: ">>,
                                Err("io", <<"write failed">>)),
                   s |-> s1, out |-> <<>>]
             ELSE [err |-> Nil, s |-> s1, out |-> StatusLine(s1)]

----------------------------------------------------------------------------
(* The Init call as a process, and its caller *)

NoCall == [kind |-> "none", canceled |-> FALSE, msg |-> <<>>]

NoSession ==
    [started |-> FALSE, pod |-> <<>>, stop |-> NoChan, ready |-> NoChan,
     readySent |-> FALSE, stopSent |-> FALSE]

PodNames == {"p1", "p2"}

PodLists == UNION {[1..k -> {<<p>> : p \in PodNames}] : k \in 0..MaxPods}

NewChans(n) == [i \in 1..n |-> 0]

(* Init returns (k8forward.go:59-68) *)
Finish(err, s1, c) ==
    LET o == InitOutcome(err, s1.CancelFn)
    IN  /\ runErr' = err
        /\ ret' = o.ret
        /\ cancels' = o.cancels
        /\ pc' = "idle"
        /\ ctx' = IF o.cancels > 0 /\ s1.CancelFn = "cancelCtx" THEN "canceled" ELSE c

(* the caller calls s.Validate() *)
ValidateCall ==
    /\ pc = "idle"
    /\ s.validated \/ loads < MaxLoads
    /\ LET v == Validate(s, env, Len(sig))
       IN  /\ s' = v.s
           /\ vret' = v.err
           /\ loads' = loads + v.loaded
           /\ sig' = sig \o NewChans(v.made)
    /\ op' = "Validate"
    /\ UNCHANGED <<env, pc, ctx, calls, trace, pods, cancels, runErr, ret, session, out>>

(* the caller assigns s.ReadyChannel a channel it made; the other fields are
   set when the Settings is constructed *)
SetReadyChannel ==
    /\ pc = "idle"
    /\ s.ReadyChannel = NoChan
    /\ s' = [s EXCEPT !.ReadyChannel = Len(sig) + 1]
    /\ sig' = Append(sig, 0)
    /\ op' = "SetReadyChannel"
    /\ UNCHANGED <<env, pc, ctx, calls, trace, pods, cancels, runErr, ret, vret, loads,
                   session, out>>

(* Init is called: run's Validate (k8forward.go:181-183) *)
InitCall ==
    /\ pc = "idle"
    /\ calls < MaxCalls
    /\ s.validated \/ loads < MaxLoads
    /\ LET v == Validate(s, env, Len(sig))
       IN  /\ s' = v.s
           /\ vret' = v.err
           /\ loads' = loads + v.loaded
           /\ sig' = sig \o NewChans(v.made)
           /\ trace' = IF v.loaded = 1 THEN <<"validate", "resolve">> ELSE <<"validate">>
           /\ IF v.err # Nil
              THEN Finish(v.err, v.s, "live")
              ELSE /\ pc' = "listing"
                   /\ ctx' = "live"
                   /\ cancels' = 0
                   /\ runErr' = NoCall
                   /\ ret' = NoCall
    /\ calls' = calls + 1
    /\ pods' = <<>>
    /\ out' = <<>>
    /\ op' = "Init"
    /\ UNCHANGED <<env, session>>

(* s.podClient.Pods(s.namespace).List returns; run picks the pod, writes the
   status line and starts the collaborator (k8forward.go:198-217) *)
ListPods ==
    /\ pc = "listing"
    /\ \E listErr \in {Nil, Err("api", <<"server error">>)}
                        \cup (IF ctx = "canceled" THEN {Canceled} ELSE {}),
          items \in PodLists :
          /\ listErr # Nil => items = <<>>
          /\ LET r == selectPod(s, listErr, items)
             IN  /\ s' = r.s
                 /\ pods' = items
                 /\ out' = r.out
                 /\ IF r.err # Nil
                    THEN /\ Finish(r.err, r.s, ctx)
                         /\ trace' = Append(trace, "list")
                         /\ UNCHANGED session
                    ELSE /\ pc' = "forwarding"
                         /\ trace' = trace \o <<"list", "forward">>
                         /\ session' = [started |-> TRUE,
                                        pod |-> r.s.portForwardOptions.PodName,
                                        stop |-> r.s.portForwardOptions.StopChannel,
                                        ready |-> r.s.portForwardOptions.ReadyChannel,
                                        readySent |-> FALSE, stopSent |-> FALSE]
                         /\ UNCHANGED <<ctx, cancels, runErr, ret>>
    /\ op' = "List"
    /\ UNCHANGED <<env, calls, vret, loads, sig>>

(* the collaborator signals "tunnel established" on the ready channel it was given *)
ReadySignal ==
    /\ pc = "forwarding"
    /\ ~session.readySent
    /\ sig' = [sig EXCEPT ![session.ready] = @ + 1]
    /\ session' = [session EXCEPT !.readySent = TRUE]
    /\ op' = "Ready"
    /\ UNCHANGED <<s, env, pc, ctx, calls, trace, pods, cancels, runErr, ret, vret, loads, out>>

(* the collaborator signals the stop channel it was given: on context
   cancellation or on an interrupt *)
StopSignal ==
    /\ pc = "forwarding"
    /\ ~session.stopSent
    /\ sig' = [sig EXCEPT ![session.stop] = @ + 1]
    /\ session' = [session EXCEPT !.stopSent = TRUE]
    /\ op' = "Stop"
    /\ UNCHANGED <<s, env, pc, ctx, calls, trace, pods, cancels, runErr, ret, vret, loads, out>>

(* RunPortForwardContext returns (k8forward.go:217-221) *)
ForwardEnd ==
    /\ pc = "forwarding"
    /\ \E e \in {Err("portforward", <<"lost connection to pod">>)}
                  \cup (IF ctx = "canceled" THEN {Canceled} ELSE {})
                  \cup (IF sig[session.stop] > 0 THEN {Nil} ELSE {}) :
          Finish(IF e = Nil THEN Nil
                 ELSE Wrap("ForwardError",
                           <<"error port-forwarding from ">> \o s.LocalAddress \o <<" to ">>
                               \o s.portForwardOptions.PodName \o <<":">> \o s.RemotePort
                               \o <<" on ">> \o s.ContextName \o <<": ">>, e),
                 s, ctx)
    /\ op' = "ForwardEnd"
    /\ UNCHANGED <<s, env, calls, trace, pods, vret, loads, sig, session, out>>

(* the caller cancels the context it handed to Init *)
CancelCtx ==
    /\ pc # "idle"
    /\ ctx = "live"
    /\ ctx' = "canceled"
    /\ op' = "Cancel"
    /\ UNCHANGED <<s, env, pc, calls, trace, pods, cancels, runErr, ret, vret, loads, sig,
                   session, out>>


----------------------------------------------------------------------------
(* Initial states *)

NewSettings(contextName, appName, localAddress, remotePort, versionName, kubeconfigPath, readyChannel, cancelFn, o) ==
    [ContextName |-> contextName, AppName |-> appName, LocalAddress |-> localAddress,
     RemotePort |-> remotePort, VersionName |-> versionName, KubeconfigPath |-> kubeconfigPath,
     ReadyChannel |-> readyChannel, CancelFn |-> cancelFn, Out |-> o, ErrOut |-> "nil",
     localHost |-> <<>>, localPort |-> <<>>, namespace |-> <<>>, restConfig |-> "nil",
     podClient |-> "nil", portForwardOptions |-> NilOptions, validated |-> FALSE]

ContextNames == {<<"d">>, <<"%", "d">>}

GoodAddress == <<"h", ":", "8">>

GoodPort == <<"9">>

Kubeconfig(names) ==
    [ok |-> TRUE, contexts |-> [c \in names |-> IF c = <<"d">> THEN <<"ns1">> ELSE <<"ns2">>]]

GoodEnv == [home |-> TRUE, kube |-> Kubeconfig(ContextNames), fail |-> "none"]

Envs ==
    {GoodEnv,
     [GoodEnv EXCEPT !.home = FALSE],
     [GoodEnv EXCEPT !.kube = [ok |-> FALSE, contexts |-> <<>>]],
     [GoodEnv EXCEPT !.kube = Kubeconfig({<<"d">>})]}
    \cup {[GoodEnv EXCEPT !.fail = f] :
             f \in {"clientConfig", "clientset", "restClient", "optionsValidate"}}

(* the Settings values a caller constructs: every combination of the optional
   fields over well-formed required fields, and each required field ill-formed
   in turn *)
GoodSettings ==
    {NewSettings(c, <<"a">>, GoodAddress, GoodPort, v, k, r, f, o) :
        c \in ContextNames, v \in {<<>>, <<"v">>}, k \in {<<>>, <<"/cfg">>},
        r \in {NoChan, 1}, f \in {"nil", "hook"}, o \in {"nil", "broken"}}

BadSettings ==
    {NewSettings(<<>>, <<"a">>, GoodAddress, GoodPort, <<>>, <<>>, NoChan, "hook", "nil"),
     NewSettings(<<"d">>, <<>>, GoodAddress, GoodPort, <<>>, <<>>, NoChan, "hook", "nil"),
     NewSettings(<<"d">>, <<"a">>, <<"h">>, GoodPort, <<>>, <<>>, NoChan, "hook", "nil"),
     NewSettings(<<"d">>, <<"a">>, GoodAddress, <<"x">>, <<>>, <<>>, NoChan, "hook", "nil")}

InitSettings(settings, envs) ==
    /\ s \in settings
    /\ env \in envs
    /\ pc = "idle"
    /\ ctx = "live"
    /\ calls = 0
    /\ trace = <<>>
    /\ pods = <<>>
    /\ cancels = 0
    /\ runErr = NoCall
    /\ ret = NoCall
    /\ vret = NoCall
    /\ loads = 0
    /\ op = "new"
    /\ sig = IF s.ReadyChannel = NoChan THEN <<>> ELSE <<0>>
    /\ session = NoSession
    /\ out = <<>>

InitPortIdle ==
    /\ portIn = <<>>
    /\ portOut = [done |-> FALSE, ok |-> FALSE, port |-> 0, err |-> NoCall]

InitEmbedIdle ==
    /\ callerPc = "none"
    /\ goPc = "none"
    /\ pfErr = Nil
    /\ seenErr = NoCall

----------------------------------------------------------------------------
(* Spec: one Settings value and the calls made on it *)

Init == InitSettings(GoodSettings \cup BadSettings, Envs) /\ InitPortIdle /\ InitEmbedIdle

Next ==
    \/ ValidateCall /\ UNCHANGED <<portVars, embedVars>>
    \/ SetReadyChannel /\ UNCHANGED <<portVars, embedVars>>
    \/ InitCall /\ UNCHANGED <<portVars, embedVars>>
    \/ ListPods /\ UNCHANGED <<portVars, embedVars>>
    \/ ReadySignal /\ UNCHANGED <<portVars, embedVars>>
    \/ StopSignal /\ UNCHANGED <<portVars, embedVars>>
    \/ ForwardEnd /\ UNCHANGED <<portVars, embedVars>>
    \/ CancelCtx /\ UNCHANGED <<portVars, embedVars>>

Spec == Init /\ [][Next]_vars

----------------------------------------------------------------------------
(* SpecPort: validateTCPPort applied to every port string within the bounds *)

PortChars == {"0", "7", "a", "+", "-", ":"}

BoundaryDigits == {"3", "5", "6"}

PortStrings == Strs(PortChars, MaxLen) \cup Strs(BoundaryDigits, MaxDigits)

CheckPort ==
    /\ ~portOut.done
    /\ LET a == Atoi(portIn)
       IN  portOut' = [done |-> TRUE, ok |-> a.ok, port |-> a.n,
                       err |-> validateTCPPort("remote TCP port", portIn)]
    /\ UNCHANGED <<portIn, settingsVars, embedVars>>

InitPort ==
    /\ InitSettings({NewSettings(<<"d">>, <<"a">>, GoodAddress, GoodPort, <<>>, <<>>,
                                 NoChan, "nil", "nil")}, {GoodEnv})
    /\ portIn \in PortStrings
    /\ portOut = [done |-> FALSE, ok |-> FALSE, port |-> 0, err |-> NoCall]
    /\ InitEmbedIdle

NextPort == CheckPort

SpecPort == InitPort /\ [][NextPort]_vars

----------------------------------------------------------------------------
(* SpecArgs: Validate applied to every Settings value within the bounds *)

ArgChars == {"h", ":", "9", "-"}

Nines == {[i \in 1..n |-> "9"] : n \in 1..MaxDigits}

ArgSettings ==
    {NewSettings(c, a, l, r, <<>>, <<>>, NoChan, "nil", "nil") :
        c \in {<<>>, <<"d">>}, a \in {<<>>, <<"a">>},
        l \in Strs(ArgChars, MaxAddrLen) \cup {<<"h", ":">> \o n : n \in Nines},
        r \in Strs(ArgChars, MaxRemoteLen) \cup Nines}

InitArgs ==
    /\ InitSettings(ArgSettings, {GoodEnv, [GoodEnv EXCEPT !.kube = [ok |-> FALSE, contexts |-> <<>>]]})
    /\ InitPortIdle
    /\ InitEmbedIdle

NextArgs == ValidateCall /\ UNCHANGED <<portVars, embedVars>>

SpecArgs == InitArgs /\ [][NextArgs]_vars


----------------------------------------------------------------------------
(* SpecEmbed: the README's embedding.  The caller makes ctx and readyChan,
   starts `pfErr = Init(...)` in a goroutine with CancelFn = ctx's cancel
   function, waits for readyChan or ctx.Done(), then tests pfErr.  priorCtx is
   never canceled, so ctx is canceled only by CancelFn or by the caller's
   deferred cancel. *)

GoInit ==
    /\ goPc = "start"
    /\ InitCall
    /\ goPc' = "running"
    /\ UNCHANGED <<callerPc, pfErr, seenErr, portVars>>

(* the goroutine stores Init's return value in pfErr *)
GoStore ==
    /\ goPc = "running"
    /\ pc = "idle"
    /\ pfErr' = ret
    /\ goPc' = "stored"
    /\ UNCHANGED <<callerPc, seenErr, settingsVars, portVars>>

(* select { case <-readyChan: case <-ctx.Done() } *)
CallerSelect ==
    /\ callerPc = "select"
    /\ sig[s.ReadyChannel] > 0 \/ ctx = "canceled"
    /\ callerPc' = "test"
    /\ UNCHANGED <<goPc, pfErr, seenErr, settingsVars, portVars>>

(* if pfErr != nil { return pfErr } *)
CallerTest ==
    /\ callerPc = "test"
    /\ seenErr' = pfErr
    /\ callerPc' = IF pfErr # Nil THEN "failed" ELSE "use"
    /\ UNCHANGED <<goPc, pfErr, settingsVars, portVars>>

(* the caller returns: defer cancelFunc() *)
CallerReturn ==
    /\ callerPc \in {"use", "failed"}
    /\ callerPc' = "returned"
    /\ ctx' = "canceled"
    /\ UNCHANGED <<goPc, pfErr, seenErr, portVars, s, env, pc, calls, trace, pods, cancels,
                   runErr, ret, vret, loads, op, sig, session, out>>

InitEmbed ==
    /\ InitSettings({NewSettings(c, <<"a">>, GoodAddress, GoodPort, <<>>, <<>>, 1,
                                 "cancelCtx", "nil") : c \in ContextNames}, Envs)
    /\ InitPortIdle
    /\ callerPc = "select"
    /\ goPc = "start"
    /\ pfErr = Nil
    /\ seenErr = NoCall

NextEmbed ==
    \/ GoInit
    \/ ListPods /\ UNCHANGED <<portVars, embedVars>>
    \/ ReadySignal /\ UNCHANGED <<portVars, embedVars>>
    \/ StopSignal /\ UNCHANGED <<portVars, embedVars>>
    \/ ForwardEnd /\ UNCHANGED <<portVars, embedVars>>
    \/ GoStore
    \/ CallerSelect
    \/ CallerTest
    \/ CallerReturn

SpecEmbed == InitEmbed /\ [][NextEmbed]_vars

----------------------------------------------------------------------------
(* Notions the properties are stated in *)

RECURSIVE Pow10(_)
Pow10(k) == IF k = 0 THEN 1 ELSE 10 * Pow10(k - 1)

RECURSIVE PlaceSum(_, _)
PlaceSum(str, k) ==
    IF k = 0 THEN 0
    ELSE DigitVal(str[k]) * Pow10(Len(str) - k) + PlaceSum(str, k - 1)

AllDigits(str) == str # <<>> /\ \A i \in 1..Len(str) : str[i] \in Digit

Unsigned(str) == IF str # <<>> /\ str[1] \in {"+", "-"} THEN Tail1(str) ELSE str

(* the string writes an integer in decimal, with an optional sign *)
IsIntegerString(str) == AllDigits(Unsigned(str))

IntValue(str) ==
    LET u == Unsigned(str)
    IN  IF str[1] = "-" THEN 0 - PlaceSum(u, Len(u)) ELSE PlaceSum(u, Len(u))

InRangeInteger(str) == IsIntegerString(str) /\ IntValue(str) >= 0 /\ IntValue(str) <= 65535

(* the form strconv.Itoa writes: no sign for a value >= 0, no leading zeros *)
IsCanonical(str) == AllDigits(str) /\ (Len(str) = 1 \/ str[1] # "0")

DigitChar(d) == CHOOSE c \in Digit : DigitVal(c) = d

RECURSIVE ItoaNat(_)
ItoaNat(n) == IF n < 10 THEN <<DigitChar(n)>> ELSE Append(ItoaNat(n \div 10), DigitChar(n % 10))

Itoa(n) == IF n < 0 THEN <<"-">> \o ItoaNat(0 - n) ELSE ItoaNat(n)

(* the address has exactly one ':' and text on both sides of it *)
Colons(str) == {i \in 1..Len(str) : str[i] = ":"}

HostPort(str) ==
    Cardinality(Colons(str)) = 1
        /\ \A i \in Colons(str) : 1 < i /\ i < Len(str)

HostOf(str) == SubSeq(str, 1, (CHOOSE i \in Colons(str) : TRUE) - 1)

PortOf(str) == SubSeq(str, (CHOOSE i \in Colons(str) : TRUE) + 1, Len(str))

BadArguments(st) ==
    \/ st.ContextName = <<>>
    \/ st.AppName = <<>>
    \/ st.LocalAddress = <<>>
    \/ st.RemotePort = <<>>
    \/ ~HostPort(st.LocalAddress)
    \/ ~InRangeInteger(PortOf(st.LocalAddress))
    \/ ~InRangeInteger(st.RemotePort)

(* msg contains name as a run of consecutive characters *)
Mentions(msg, name) ==
    \E i \in 1..(Len(msg) + 1) :
        i + Len(name) - 1 <= Len(msg) /\ SubSeq(msg, i, i + Len(name) - 1) = name

Finished == pc = "idle" /\ runErr # NoCall

Fatal(err) == err # NoCall /\ err # Nil /\ ~err.canceled

StageRank(st) ==
    CASE st = "validate" -> 1 [] st = "resolve" -> 2 [] st = "list" -> 3 [] st = "forward" -> 4

InTrace(st) == \E i \in 1..Len(trace) : trace[i] = st


----------------------------------------------------------------------------
(* Properties *)

(* C1: when a CancelFn is supplied and the error that ends an Init call is or
   wraps context cancellation, or the call ends in success, Init returns nil
   and CancelFn is not invoked. *)
C1_CancellationIsSuccess ==
    (Finished /\ s.CancelFn # "nil" /\ (runErr = Nil \/ runErr.canceled))
        => (ret = Nil /\ cancels = 0)

(* an Init call with a CancelFn whose context was canceled while forwarding
   has ended with the collaborator's cancellation error *)
C1_Witness ==
    /\ Finished
    /\ s.CancelFn = "hook"
    /\ runErr.kind = "ForwardError"
    /\ runErr.canceled
    /\ ctx = "canceled"
    /\ ret = Nil

(* C2: an Init call that ends in a fatal (non-cancellation) failure returns that
   non-nil error, and a supplied CancelFn has been invoked exactly once by the
   time Init returns. *)
C2_FatalInvokesCancelFnOnce ==
    (Finished /\ Fatal(runErr))
        => (ret = runErr /\ ret # Nil /\ cancels = IF s.CancelFn # "nil" THEN 1 ELSE 0)

(* an Init call with a CancelFn has ended with the collaborator's own failure *)
C2_Witness ==
    /\ Finished
    /\ s.CancelFn = "hook"
    /\ runErr.kind = "ForwardError"
    /\ ~runErr.canceled
    /\ cancels = 1

(* C3: in the README's embedding, a caller that passed the `pfErr != nil` test
   and went on to use the tunnel has had the ready signal delivered. *)
C3_UseOnlyAfterReady ==
    callerPc = "use" => sig[s.ReadyChannel] > 0

(* C4: within one Init call the stages are entered in the order validate,
   resolve, list, forward, each at most once; pods are listed only after
   validation and the resolution of a context the kubeconfig holds have
   succeeded; the collaborator is started only after the call's one listing
   returned at least one pod. *)
C4_StagesInOrder ==
    /\ \A i, j \in 1..Len(trace) : i < j => StageRank(trace[i]) < StageRank(trace[j])
    /\ InTrace("resolve") => InTrace("validate")
    /\ InTrace("list") =>
          /\ InTrace("validate")
          /\ vret = Nil
          /\ s.validated
          /\ env.kube.ok
          /\ s.ContextName \in DOMAIN env.kube.contexts
    /\ InTrace("forward") => (InTrace("list") /\ Len(pods) >= 1)
    /\ pc = "forwarding" => InTrace("forward")

(* an Init call went through all four stages *)
C4_Witness ==
    /\ trace = <<"validate", "resolve", "list", "forward">>
    /\ pc = "forwarding"

(* C5: a Validate call that directly follows a Validate call on the same
   Settings returns what that call returned; once Validate has succeeded,
   every later call, Init's own included, returns nil, changes no field of the
   Settings, does not call LoadFromFile and makes no channel. *)
C5_ValidateIdempotent ==
    [][ (op' = "Validate" \/ (op' = "Init" /\ calls' = calls + 1)) =>
          /\ op = "Validate" => vret' = vret
          /\ s.validated => (vret' = Nil /\ s' = s /\ loads' = loads /\ Len(sig') = Len(sig)) ]_vars

(* Init has run its own Validate on a Settings the caller had validated *)
C5_Witness ==
    /\ op = "Init"
    /\ trace = <<"validate">>
    /\ calls = 1
    /\ pc = "listing"
    /\ loads = 1

(* C6: Validate fails on its argument checks, with the kubeconfig not loaded,
   exactly when a required field is empty, LocalAddress is not host:port with
   both segments non-empty, or the local port or RemotePort is not an integer
   in [0, 65535]; otherwise localHost and localPort are LocalAddress's two
   segments. *)
C6_ArgumentChecks ==
    op = "Validate" =>
        /\ vret.kind = "InvalidArgument" <=> BadArguments(s)
        /\ vret.kind = "InvalidArgument" => (loads = 0 /\ ~s.validated)
        /\ ~BadArguments(s) =>
              /\ loads >= 1
              /\ s.localHost = HostOf(s.LocalAddress)
              /\ s.localPort = PortOf(s.LocalAddress)

(* Validate has rejected an address whose host segment is empty *)
C6_Witness ==
    /\ op = "Validate"
    /\ s.ContextName # <<>>
    /\ s.AppName # <<>>
    /\ s.LocalAddress = <<":", "9">>
    /\ s.RemotePort = <<"9">>
    /\ vret.kind = "InvalidArgument"

(* C7 as stated: the port check fails on every string that is not an integer
   in [0, 65535], succeeds on every string that is, and formatting the parsed
   integer gives back the accepted string. *)
C7_RoundTripsToSameString ==
    portOut.done =>
        /\ ~InRangeInteger(portIn) => portOut.err # Nil
        /\ InRangeInteger(portIn) => (portOut.err = Nil /\ Itoa(portOut.port) = portIn)

(* C7 as amended: the port check fails on every string that is not an integer
   in [0, 65535] and succeeds on every string that is; the parsed integer is
   the string's value, formats to a string that parses to the same integer, and
   formats to the accepted string itself exactly when that string has no sign
   and no leading zeros. *)
C7_PortCheck ==
    portOut.done =>
        /\ ~InRangeInteger(portIn) => portOut.err # Nil
        /\ InRangeInteger(portIn) =>
              /\ portOut.err = Nil
              /\ portOut.ok
              /\ portOut.port = IntValue(portIn)
              /\ Atoi(Itoa(portOut.port)) = [ok |-> TRUE, n |-> portOut.port]
              /\ Itoa(portOut.port) = portIn <=> IsCanonical(portIn)

(* the port check has accepted a string with a leading zero, which the parsed
   integer does not format back to *)
C7_Witness ==
    /\ portOut.done
    /\ portIn = <<"0", "7">>
    /\ portOut.err = Nil
    /\ portOut.port = 7
    /\ Itoa(portOut.port) = <<"7">>

(* C8: a started collaborator has the first pod of this call's listing, the one
   the status line names, never the placeholder; an empty listing ends the call
   with the no-matching-pods error naming the app, the version if supplied and
   the context, with no forwarding started. *)
C8_FirstPodOrNamedError ==
    /\ pc = "forwarding" =>
          /\ session.pod = pods[1]
          /\ s.portForwardOptions.PodName = pods[1]
          /\ session.pod # <<"placeholder">>
          /\ out = <<"Starting port-forward from ">> \o s.LocalAddress \o <<" to ">>
                       \o pods[1] \o <<":">> \o s.RemotePort \o <<" on ">> \o s.ContextName
    /\ (Finished /\ InTrace("list") /\ runErr.kind # "ListError" /\ pods = <<>>) =>
          /\ runErr.kind = "NoMatchingPods"
          /\ ~InTrace("forward")
          /\ Mentions(runErr.msg, s.AppName)
          /\ Mentions(runErr.msg, s.VersionName)
          /\ Mentions(runErr.msg, s.ContextName)

(* C9: a collaborator started on a Settings whose ReadyChannel is non-nil was
   handed that channel as its ready channel. *)
C9_CallerReadyChannelPassedThrough ==
    (pc = "forwarding" /\ s.ReadyChannel # NoChan) => session.ready = s.ReadyChannel

(* C10: over any sequence of Validate and Init calls on one Settings, every
   stop and ready channel handed to the collaborator is signaled at most once. *)
C10_ChannelsSignaledAtMostOnce ==
    \A c \in 1..Len(sig) : sig[c] <= 1

====
